---- MODULE Spec2Model ----
(***************************************************************************)
(* A-Share Intelligent Analysis System: the acquisition pipeline of        *)
(* services/marketService.ts (cache lookup, EastMoney -> Tencent ->        *)
(* synthetic failover over JSONP) and the IndexedDB cache of utils/db.ts.  *)
(*                                                                         *)
(* JavaScript runs one task at a time: every action below is one task of   *)
(* the event loop (a script executing, an error event, a timer, an         *)
(* IndexedDB event) together with all the promise continuations that the   *)
(* task makes runnable.                                                    *)
(*                                                                         *)
(* Spec and SpecConc follow fetchStockData, SpecDb the db object called    *)
(* directly, SpecPure the pure functions (reconciliation, the synthetic    *)
(* generator, the indicators) on bounded arguments, SpecBao one load of    *)
(* services/baostockService.ts under useStockData, SpecHook the hooks      *)
(* useStockData and useGeminiAnalysis of the Dashboard.                    *)
(***************************************************************************)
EXTENDS Integers, Sequences, FiniteSets, TLC

\* ---------------------------------------------------------------- bounds
NumReq == 2        \* concurrent fetchStockData invocations
MaxBars == 2       \* bars of a non-empty provider series
DbTtl == 2         \* the ttlMs of a direct db.set, in ms
MaxElapse == 3     \* ms of clock the direct db calls are followed for
MaxTx == 2         \* transactions of direct db calls waiting at a time
MaxLen == 4        \* bars of a series handed to calculateMA
MaxKdjLen == 3     \* bars of a series handed to calculateKDJ
MaxSwitch == 3     \* times the user picks another stock

\* ----------------------------------------------------- program constants
REQUEST_TIMEOUT == 12000
CACHE_TTL_MS == 1800000
MockWindow == 120
MARKET == "market_data"
ANALYSIS == "analysis_results"
STORES == {MARKET, ANALYSIS}

Null == [null |-> TRUE]             \* JavaScript null / undefined
Reqs == 1..NumReq

\* A security code is a string; here a sequence of characters.
Codes == { <<"s", "h", ".", "6">>, <<"s", "z", ".", "0">> }
Alnum == {"s", "h", "z", "6", "0"}
Now0 == CACHE_TTL_MS + 2            \* the clock when the page starts

\* code.replace(/[^a-zA-Z0-9]/g, '')
cleanCode(code) == SelectSeq(code, LAMBDA ch : ch \in Alnum)

\* `${cleanCode}_${ts}`
cbPrefix(code, ts) == <<cleanCode(code), ts>>

\* The four JSONP calls of one request and the callback name of each:
\* cb_em_*, cb_em_snap_*, cb_em_fin_*, cb_qq_*.
Kinds == {"kline", "snap", "fin", "qq"}
Calls == Reqs \X Kinds
cbTag(kind) ==
  CASE kind = "kline" -> "cb_em_"
    [] kind = "snap" -> "cb_em_snap_"
    [] kind = "fin" -> "cb_em_fin_"
    [] kind = "qq" -> "cb_qq_"

VARIABLES
  now,        \* Date.now(), in ms
  req,        \* req[r]: one fetchStockData invocation
  call,       \* call[c]: one jsonpFetch call (its promise, its script's load)
  win,        \* window[callbackName]: the registered callbacks, name -> call
  dom,        \* the script elements in document.body, in document order
  timers,     \* the pending setTimeout timers, in creation order
  store,      \* the IndexedDB object stores, store[name][key]
  txq,        \* the IndexedDB transactions created and not yet run, in creation order
  rel,        \* rel[c]: what the cleanup() runs of call c actually removed
  dbc,        \* dbc[c]: one direct db.get / db.set / db.clear call
  obs,        \* obs[cell]: the last set a caller saw complete, and what gets saw since
  io,         \* a pure function's argument and its result
  bao,        \* baostockService.fetchStockData under useStockData: one load
  hook        \* the Dashboard's hooks: useStockData and useGeminiAnalysis

vars == <<now, req, call, win, dom, timers, store, txq, rel, dbc, obs, io, bao, hook>>

\* ------------------------------------------------------------ JS values
Has(f, k) == k \in DOMAIN f
Get(f, k) == IF Has(f, k) THEN f[k] ELSE Null        \* f.k (undefined as null)
Put(f, k, v) == (k :> v) @@ f                        \* f.k = v
Str(s) == [s |-> s]                                  \* a string value
Falsy(v) == v = Null \/ v = [n |-> 0, d |-> 1]       \* !v (no string here is empty)
OrNull(v) == IF Falsy(v) THEN Null ELSE v            \* v || null

\* Exact rationals for the floating-point results, in lowest terms.
RECURSIVE GCD(_, _)
GCD(a, b) == IF b = 0 THEN a ELSE GCD(b, a % b)
Abs(x) == IF x < 0 THEN -x ELSE x
Frac(n, d) ==
  LET g == GCD(Abs(n), Abs(d))
      s == IF d < 0 THEN -1 ELSE 1
  IN  IF n = 0 THEN [n |-> 0, d |-> 1] ELSE [n |-> s * (n \div g), d |-> s * (d \div g)]
FInt(i) == [n |-> i, d |-> 1]
LCM(a, b) == (a \div GCD(a, b)) * b
FAdd(a, b) == LET l == LCM(a.d, b.d) IN Frac(a.n * (l \div a.d) + b.n * (l \div b.d), l)
FSub(a, b) == LET l == LCM(a.d, b.d) IN Frac(a.n * (l \div a.d) - b.n * (l \div b.d), l)
FMul(a, b) == Frac(a.n * b.n, a.d * b.d)
FDiv(a, b) == Frac(a.n * b.d, a.d * b.n)
FLess(a, b) == LET l == LCM(a.d, b.d) IN a.n * (l \div a.d) < b.n * (l \div b.d)
FLeq(a, b) == LET l == LCM(a.d, b.d) IN a.n * (l \div a.d) <= b.n * (l \div b.d)
RECURSIVE ISqrtFrom(_, _)
ISqrtFrom(x, r) == IF (r + 1) * (r + 1) > x THEN r ELSE ISqrtFrom(x, r + 1)
ISqrt(x) == ISqrtFrom(x, 0)                          \* floor of the square root

\* ------------------------------------------------------ utils/indicators
\* A candle's close as a rational.
Close(c) == FInt(c.close)

RECURSIVE SumClose(_, _, _)
SumClose(data, lo, hi) ==
  IF lo > hi THEN FInt(0) ELSE FAdd(Close(data[lo]), SumClose(data, lo + 1, hi))

maKey(period) ==
  CASE period = 5 -> "ma5" [] period = 10 -> "ma10" [] period = 20 -> "ma20"
    [] period = 50 -> "ma50" [] period = 200 -> "ma200"
    [] period = 1 -> "ma1" [] period = 2 -> "ma2" [] period = 3 -> "ma3"

\* (a moving average that averages what there is during the warm-up)
calculateMAPartial(data, period) ==
  [i \in 1..Len(data) |->
    LET lo == IF i - period + 1 < 1 THEN 1 ELSE i - period + 1
    IN  Put(data[i], maKey(period), FDiv(SumClose(data, lo, i), FInt(i - lo + 1)))]

\* Indices are 1-based here: index i of the source is i - 1.
calculateMA(data, period) ==
  [i \in 1..Len(data) |->
    IF i - 1 < period - 1
      THEN Put(data[i], maKey(period), Null)
      ELSE Put(data[i], maKey(period),
               FDiv(SumClose(data, i - period + 1, i), FInt(period)))]

\* The EMA accumulators after the bar at index i: <<emaShort, emaLong, dea>>.
RECURSIVE macdAcc(_, _, _, _, _)
macdAcc(data, i, short, long, mid) ==
  IF i = 1 THEN <<Close(data[1]), Close(data[1]), FInt(0)>>
  ELSE LET p == macdAcc(data, i - 1, short, long, mid)
           es == FDiv(FAdd(FMul(FInt(2), Close(data[i])), FMul(FInt(short - 1), p[1])),
                      FInt(short + 1))
           el == FDiv(FAdd(FMul(FInt(2), Close(data[i])), FMul(FInt(long - 1), p[2])),
                      FInt(long + 1))
           dif == FSub(es, el)
       IN  <<es, el, FDiv(FAdd(FMul(FInt(2), dif), FMul(FInt(mid - 1), p[3])), FInt(mid + 1))>>

\* (a MACD pass that rebuilds each bar from its raw fields)
calculateMACDRebuilding(data) ==
  [i \in 1..Len(data) |->
    LET item == [k \in {"date", "open", "close", "high", "low", "volume", "amount",
                        "pctChg"} |-> data[i][k]]
    IN  IF i = 1
          THEN Put(Put(Put(item, "dif", FInt(0)), "dea", FInt(0)), "macd", FInt(0))
          ELSE LET a == macdAcc(data, i, 12, 26, 9)
                   dif == FSub(a[1], a[2])
               IN  Put(Put(Put(item, "dif", dif), "dea", a[3]),
                       "macd", FMul(FSub(dif, a[3]), FInt(2)))]

calculateMACD(data) ==
  [i \in 1..Len(data) |->
    IF i = 1
      THEN Put(Put(Put(data[i], "dif", FInt(0)), "dea", FInt(0)), "macd", FInt(0))
      ELSE LET a == macdAcc(data, i, 12, 26, 9)
               dif == FSub(a[1], a[2])
           IN  Put(Put(Put(data[i], "dif", dif), "dea", a[3]),
                   "macd", FMul(FSub(dif, a[3]), FInt(2)))]

\* The running <<gains, losses>> after the bar at index i (i >= 2).
RECURSIVE rsiAcc(_, _, _)
rsiAcc(data, i, period) ==
  IF i = 1 THEN <<FInt(0), FInt(0)>>
  ELSE LET p == rsiAcc(data, i - 1, period)
           change == data[i].close - data[i - 1].close
           gain == FInt(IF change > 0 THEN change ELSE 0)
           loss == FInt(IF change < 0 THEN -change ELSE 0)
       IN  IF i - 1 < period
             THEN LET g == FAdd(p[1], gain)
                      l == FAdd(p[2], loss)
                  IN  IF i - 1 = period - 1
                        THEN <<FDiv(g, FInt(period)), FDiv(l, FInt(period))>>
                        ELSE <<g, l>>
             ELSE <<FDiv(FAdd(FMul(p[1], FInt(period - 1)), gain), FInt(period)),
                    FDiv(FAdd(FMul(p[2], FInt(period - 1)), loss), FInt(period))>>

\* (an RSI that emits the relative strength itself, as a percentage)
calculateRSIUnnormalised(data, period) ==
  [i \in 1..Len(data) |->
    IF i = 1 \/ i - 1 < period
      THEN Put(data[i], "rsi", FInt(50))
      ELSE LET a == rsiAcc(data, i, period)
               rs == IF a[2].n = 0 THEN FInt(100) ELSE FDiv(a[1], a[2])
           IN  Put(data[i], "rsi", FMul(FInt(100), rs))]

calculateRSI(data, period) ==
  [i \in 1..Len(data) |->
    IF i = 1 \/ i - 1 < period
      THEN Put(data[i], "rsi", FInt(50))
      ELSE LET a == rsiAcc(data, i, period)
               rs == IF a[2].n = 0 THEN FInt(100) ELSE FDiv(a[1], a[2])
           IN  Put(data[i], "rsi",
                   FSub(FInt(100), FDiv(FInt(100), FAdd(FInt(1), rs))))]

RECURSIVE MinLow(_, _, _)
MinLow(data, lo, hi) ==
  IF lo = hi THEN data[lo].low
  ELSE LET m == MinLow(data, lo + 1, hi) IN IF data[lo].low < m THEN data[lo].low ELSE m
RECURSIVE MaxHigh(_, _, _)
MaxHigh(data, lo, hi) ==
  IF lo = hi THEN data[lo].high
  ELSE LET m == MaxHigh(data, lo + 1, hi) IN IF data[lo].high > m THEN data[lo].high ELSE m

\* The smoothed <<k, d>> after the bar at index i.
RECURSIVE kdjAcc(_, _, _, _, _)
kdjAcc(data, i, n, m1, m2) ==
  IF i - 1 < n - 1 THEN <<FInt(50), FInt(50)>>
  ELSE LET p == kdjAcc(data, i - 1, n, m1, m2)
           lowN == MinLow(data, i - n + 1, i)
           highN == MaxHigh(data, i - n + 1, i)
           rsv == IF highN = lowN THEN FInt(50)
                  ELSE FMul(Frac(data[i].close - lowN, highN - lowN), FInt(100))
           k == FDiv(FAdd(rsv, FMul(FInt(m1 - 1), p[1])), FInt(m1))
       IN  <<k, FDiv(FAdd(k, FMul(FInt(m2 - 1), p[2])), FInt(m2))>>

calculateKDJ(data, n, m1, m2) ==
  [i \in 1..Len(data) |->
    IF i - 1 < n - 1
      THEN Put(Put(Put(data[i], "k", FInt(50)), "d", FInt(50)), "j", FInt(50))
      ELSE LET a == kdjAcc(data, i, n, m1, m2)
           IN  Put(Put(Put(data[i], "k", a[1]), "d", a[2]),
                   "j", FSub(FMul(FInt(3), a[1]), FMul(FInt(2), a[2])))]

RECURSIVE SumSqDev(_, _, _, _)
SumSqDev(data, lo, hi, mid) ==
  IF lo > hi THEN FInt(0)
  ELSE LET dv == FSub(Close(data[lo]), mid)
       IN  FAdd(FMul(dv, dv), SumSqDev(data, lo + 1, hi, mid))

\* Math.sqrt of a rational, rounded down to a multiple of 1/d.
FSqrt(v) == Frac(ISqrt(v.n * v.d), v.d)

\* (bands around the mean of the window without its oldest bar's weight)
calculateBollingerShort(data, period, multiplier) ==
  [i \in 1..Len(data) |->
    IF i - 1 < period - 1
      THEN Put(Put(Put(data[i], "upper", Null), "mid", Null), "lower", Null)
      ELSE LET mid == FDiv(SumClose(data, i - period + 2, i), FInt(period))
               variance == FDiv(SumSqDev(data, i - period + 1, i, mid), FInt(period))
               stdDev == FSqrt(variance)
           IN  Put(Put(Put(data[i], "mid", mid),
                       "upper", FAdd(mid, FMul(stdDev, FInt(multiplier)))),
                   "lower", FSub(mid, FMul(stdDev, FInt(multiplier))))]

calculateBollinger(data, period, multiplier) ==
  [i \in 1..Len(data) |->
    IF i - 1 < period - 1
      THEN Put(Put(Put(data[i], "upper", Null), "mid", Null), "lower", Null)
      ELSE LET mid == FDiv(SumClose(data, i - period + 1, i), FInt(period))
               variance == FDiv(SumSqDev(data, i - period + 1, i, mid), FInt(period))
               stdDev == FSqrt(variance)
           IN  Put(Put(Put(data[i], "mid", mid),
                       "upper", FAdd(mid, FMul(stdDev, FInt(multiplier)))),
                   "lower", FSub(mid, FMul(stdDev, FInt(multiplier))))]

processIndicators(candles) ==
  calculateBollinger(
    calculateKDJ(
      calculateRSI(
        calculateMACD(
          calculateMA(calculateMA(calculateMA(calculateMA(calculateMA(
            candles, 5), 10), 20), 50), 200)),
        14),
      9, 3, 3),
    20, 2)

\* One pass of processIndicators, by the name of what it computes.
indicatorPass(p, data) ==
  CASE p = "ma5" -> calculateMA(data, 5)
    [] p = "ma10" -> calculateMA(data, 10)
    [] p = "ma20" -> calculateMA(data, 20)
    [] p = "ma50" -> calculateMA(data, 50)
    [] p = "ma200" -> calculateMA(data, 200)
    [] p = "macd" -> calculateMACD(data)
    [] p = "rsi" -> calculateRSI(data, 14)
    [] p = "kdj" -> calculateKDJ(data, 9, 3, 3)
    [] p = "boll" -> calculateBollinger(data, 20, 2)
\* The passes applied in the given order: the series after each of them.
RECURSIVE applyPasses(_, _)
applyPasses(order, data) ==
  IF order = <<>> THEN <<>>
  ELSE LET d == indicatorPass(Head(order), data)
       IN  <<d>> \o applyPasses(Tail(order), d)

\* The fields a provider bar carries, before any indicator pass.
RawFields == {"date", "open", "close", "high", "low", "volume", "amount", "pctChg"}
Raw(c) == [k \in RawFields |-> c[k]]
RawSeq(cs) == [i \in 1..Len(cs) |-> Raw(cs[i])]

\* ------------------------------------------------- provider payloads
\* push2his kline item "date,open,close,high,low,volume,amount,amplitude,pctChg"
EmItem(i) == <<i, 10 * i, 11 * i, 12 * i, 9 * i, 100 * i, 1100 * i, 3, 1>>
EmKlines(n) == [i \in 1..n |-> EmItem(i)]
\* Tencent day item [date, open, close, high, low, volume]
QqItem(i) == <<i, 20 * i, 22 * i, 24 * i, 18 * i, 200 * i>>
QqDay(n) == [i \in 1..n |-> QqItem(i)]

Dash == [dash |-> TRUE]             \* the string '-' of a missing quote field

\* What the kline script may hand to its callback: a series (possibly of
\* zero bars) or a payload without data.
KlinePayloads ==
  { [data |-> [klines |-> EmKlines(n)]] : n \in {0, MaxBars} } \cup { [data |-> Null] }

SnapPayloads ==
  { [data |-> [f162 |-> FInt(20), f167 |-> FInt(4), f116 |-> FInt(1000),
               f117 |-> FInt(800), f173 |-> FInt(15)]],
    [data |-> Null] }

\* One periodic report of RPT_LICO_FN_KEY_INDICATOR; dates are day numbers.
Today == 100
Report(date, roeW) ==
  [REPORT_DATE |-> date, TOTAL_OPERATE_INCOME |-> 400, PARENT_NET_PROFIT |-> 40,
   TOTAL_ASSETS |-> 400, TOTAL_LIABILITIES |-> 200, NET_PROFIT_MARGIN |-> 9,
   DEBT_ASSET_RATIO |-> 49, ROE_WEIGHTED |-> roeW, GROSS_PROFIT_MARGIN |-> 30]
DeepPayloads ==
  { [result |-> [data |-> <<Report(Today + 1, 18), Report(Today - 10, 0)>>]],
    [result |-> Null] }

\* The Tencent payload: json.data[symbol] is {day, qt} or is missing.
QqNode(n) ==
  [day |-> QqDay(n),
   qt |-> [length |-> 60, q39 |-> FInt(25), q46 |-> FInt(5), q45 |-> FInt(10),
           q44 |-> FInt(8)]]
QqPayloads(symbol) ==
  { [symbol |-> symbol, node |-> QqNode(n)] : n \in {0, MaxBars} }
  \cup { [symbol |-> symbol, node |-> Null] }

\* ------------------------------------------------- marketService helpers
StartsWith(s, p) == Len(s) >= Len(p) /\ SubSeq(s, 1, Len(p)) = p
\* s.replace(p, '') for a p that occurs, if at all, at the start of s
StripLead(s, p) == IF StartsWith(s, p) THEN SubSeq(s, Len(p) + 1, Len(s)) ELSE s

getTencentSymbol(code) ==
  LET clean == StripLead(StripLead(code, <<"s", "h", ".">>), <<"s", "z", ".">>)
  IN  IF StartsWith(code, <<"s", "h", ".">>) \/ StartsWith(code, <<"6">>)
         \/ StartsWith(code, <<"5">>)
        THEN <<"s", "h">> \o clean
        ELSE <<"s", "z">> \o clean

\* fetchFinancialProfile's body after the await: the partial snapshot it
\* returns for a response `res` ({} when there is no usable report).
RECURSIVE findReport(_, _)
findReport(data, i) ==
  IF i > Len(data) THEN Null
  ELSE IF data[i].REPORT_DATE <= Today
          /\ (data[i].TOTAL_OPERATE_INCOME # 0 \/ data[i].PARENT_NET_PROFIT # 0)
         THEN data[i]
         ELSE findReport(data, i + 1)

EmptyFin == [k \in {} |-> Null]

financialProfile(res) ==
  IF res = Null \/ res.result = Null \/ Len(res.result.data) = 0 THEN EmptyFin
  ELSE LET d == findReport(res.result.data, 1) IN
    IF d = Null THEN EmptyFin
    ELSE LET totalRevenue == d.TOTAL_OPERATE_INCOME
             netProfit == d.PARENT_NET_PROFIT
             totalAssets == d.TOTAL_ASSETS
             totalLiabilities == d.TOTAL_LIABILITIES
             totalEquity == totalAssets - totalLiabilities
             netMargin == IF totalRevenue > 0 THEN Frac(netProfit * 100, totalRevenue)
                          ELSE IF d.NET_PROFIT_MARGIN # 0 THEN FInt(d.NET_PROFIT_MARGIN)
                          ELSE Null
             assetTurnover == IF totalAssets > 0 THEN Frac(totalRevenue, totalAssets)
                              ELSE Null
             debtRatio == IF totalAssets > 0 THEN Frac(totalLiabilities * 100, totalAssets)
                          ELSE IF d.DEBT_ASSET_RATIO # 0 THEN FInt(d.DEBT_ASSET_RATIO)
                          ELSE Null
             equityMultiplier == IF totalEquity > 0 THEN Frac(totalAssets, totalEquity)
                                 ELSE Null
             roe0 == IF d.ROE_WEIGHTED # 0 THEN FInt(d.ROE_WEIGHTED) ELSE Null
             roe == IF Falsy(roe0) /\ totalEquity > 0
                      THEN Frac(netProfit * 100, totalEquity) ELSE roe0
         IN  [roe |-> roe, netMargin |-> netMargin,
              grossMargin |-> IF d.GROSS_PROFIT_MARGIN # 0
                                THEN FInt(d.GROSS_PROFIT_MARGIN) ELSE Null,
              debtRatio |-> debtRatio, assetTurnover |-> assetTurnover,
              equityMultiplier |-> equityMultiplier,
              reportDate |-> Str(d.REPORT_DATE)]

DeepFields == {"roe", "netMargin", "grossMargin", "debtRatio", "assetTurnover",
               "equityMultiplier", "reportDate"}
SnapFields == {"peTTM", "pb", "marketCap", "circulatingCap"}

\* klineRes.data.klines.map(...) of fetchEastMoneyData
emCandles(klines) ==
  [i \in 1..Len(klines) |->
    [date |-> klines[i][1], open |-> klines[i][2], close |-> klines[i][3],
     high |-> klines[i][4], low |-> klines[i][5], volume |-> klines[i][6],
     amount |-> klines[i][7], pctChg |-> klines[i][9]]]

Undash(v) == IF v # Dash THEN v ELSE Null

\* The financials fetchEastMoneyData merges from the deep profile and the
\* snapshot response (null when the snapshot call failed).
emFinancials(deepFin, snapRes) ==
  IF snapRes = Null \/ snapRes.data = Null THEN deepFin
  ELSE LET d == snapRes.data
           f == Put(Put(Put(Put(deepFin, "peTTM", Undash(d.f162)), "pb", Undash(d.f167)),
                        "marketCap", Undash(d.f116)), "circulatingCap", Undash(d.f117))
       IN  IF Falsy(Get(f, "roe")) /\ d.f173 # Dash /\ ~Falsy(d.f173)
             THEN Put(f, "roe", d.f173) ELSE f

\* json.data[symbol].day.map(...) of fetchTencentData
qqCandles(day) ==
  [i \in 1..Len(day) |->
    [date |-> day[i][1], open |-> day[i][2], close |-> day[i][3],
     high |-> day[i][4], low |-> day[i][5], volume |-> day[i][6],
     amount |-> 0, pctChg |-> ((day[i][3] - day[i][2]) * 100) \div day[i][2]]]

qqFinancials(qt) ==
  IF qt # Null /\ qt.length > 40
    THEN [peTTM |-> OrNull(qt.q39), pb |-> OrNull(qt.q46),
          marketCap |-> OrNull(FMul(qt.q45, FInt(100000000))),
          circulatingCap |-> OrNull(FMul(qt.q44, FInt(100000000)))]
    ELSE EmptyFin

\* Steps 5 of fetchStockData: enrichment and the reconciled snapshot.
reconcile(financials) ==
  LET f1 == IF Falsy(Get(financials, "roe")) /\ ~Falsy(Get(financials, "peTTM"))
               /\ ~Falsy(Get(financials, "pb"))
               /\ FLess(FInt(0), Get(financials, "peTTM"))
              THEN Put(financials, "roe",
                       FMul(FDiv(Get(financials, "pb"), Get(financials, "peTTM")), FInt(100)))
              ELSE financials
      f2 == IF Get(f1, "debtRatio") = Null THEN Put(f1, "debtRatio", FInt(50)) ELSE f1
  IN  [peTTM |-> OrNull(Get(f2, "peTTM")), pb |-> OrNull(Get(f2, "pb")),
       dividendYield |-> OrNull(Get(f2, "dividendYield")),
       marketCap |-> OrNull(Get(f2, "marketCap")),
       circulatingCap |-> OrNull(Get(f2, "circulatingCap")),
       turnoverRate |-> OrNull(Get(f2, "turnoverRate")),
       totalShares |-> Null,
       roe |-> OrNull(Get(f2, "roe")), netMargin |-> OrNull(Get(f2, "netMargin")),
       grossMargin |-> OrNull(Get(f2, "grossMargin")),
       debtRatio |-> OrNull(Get(f2, "debtRatio")),
       assetTurnover |-> OrNull(Get(f2, "assetTurnover")),
       equityMultiplier |-> OrNull(Get(f2, "equityMultiplier")),
       reportDate |-> IF Falsy(Get(f2, "reportDate")) THEN Str(Today)
                      ELSE Get(f2, "reportDate")]

buildResult(code, candles, financials) ==
  [kind |-> "real", code |-> code, candles |-> processIndicators(candles),
   financials |-> reconcile(financials)]

\* generateMockData is a deterministic function of the code (its seed); the
\* record it returns is kept by its argument.
generateMockData(code) == [kind |-> "mock", code |-> code]

\* ------------------------------------------------------------- the state
CACHE_VERSION == "v3"
cacheKey(code) == <<"stock", CACHE_VERSION, code>>       \* `stock_${CACHE_VERSION}_${code}`

NoCall == [st |-> "none", val |-> Null, net |-> "none", at |-> 0, how |-> "none"]
NoReq == [pc |-> "idle", code |-> <<>>, ts |-> 0, success |-> FALSE, winner |-> "none",
          emError |-> "", candles |-> <<>>, financials |-> [k \in {} |-> Null],
          dbres |-> "none", pend |-> Null, wt |-> 0, out |-> Null, outcome |-> "none"]

\* The state as one value, so that a task's steps compose as functions.
Cur == [now |-> now, req |-> req, call |-> call, win |-> win, dom |-> dom,
        timers |-> timers, store |-> store, txq |-> txq, rel |-> rel,
        dbc |-> dbc, obs |-> obs, io |-> io, bao |-> bao, hook |-> hook]
Commit(s) ==
  /\ now' = s.now /\ req' = s.req /\ call' = s.call /\ win' = s.win /\ dom' = s.dom
  /\ timers' = s.timers /\ store' = s.store /\ txq' = s.txq /\ rel' = s.rel
  /\ dbc' = s.dbc /\ obs' = s.obs /\ io' = s.io /\ bao' = s.bao /\ hook' = s.hook

Owner(c) == c[1]
cbNameIn(s, c) == <<cbTag(c[2]), cbPrefix(s.req[c[1]].code, s.req[c[1]].ts)>>
cbName(c) == cbNameIn(Cur, c)

Without(f, k) == [x \in DOMAIN f \ {k} |-> f[x]]
RemoveAt(q, i) == [j \in 1..(Len(q) - 1) |-> IF j < i THEN q[j] ELSE q[j + 1]]
RemoveElem(q, e) == SelectSeq(q, LAMBDA x : x # e)
\* document.getElementById(id): the first element with that id, 0 if none
RECURSIVE elementById(_, _, _)
elementById(s, id, i) ==
  IF i > Len(s.dom) THEN 0
  ELSE IF cbNameIn(s, s.dom[i]) = id THEN i ELSE elementById(s, id, i + 1)

\* ---------------------------------------------- marketService.jsonpFetch
\* cleanup() of call c: delete window[callbackName] if set, remove the
\* element found under the id callbackName if any.
cleanup(s, c) ==
  LET name == cbNameIn(s, c)
      hasCb == name \in DOMAIN s.win
      i == elementById(s, name, 1)
  IN  [s EXCEPT !.win = IF hasCb THEN Without(@, name) ELSE @,
                !.dom = IF i > 0 THEN RemoveAt(@, i) ELSE @,
                !.rel[c] = [cb |-> @.cb + (IF hasCb THEN 1 ELSE 0),
                            scr |-> @.scr + (IF i > 0 THEN 1 ELSE 0)]]

\* clearTimeout(timeoutId) of call c; `at` is the time its pending timer was set
clearTimeout(s, c) == [s EXCEPT !.timers = RemoveElem(@, c), !.call[c].at = 0]

\* resolve / reject of the call's promise: no effect once it is settled
resolveCall(s, c, json) ==
  IF s.call[c].st = "pending"
    THEN [s EXCEPT !.call[c].st = "resolved", !.call[c].val = json, !.call[c].how = "callback"]
    ELSE s
rejectCall(s, c, how) ==
  IF s.call[c].st = "pending"
    THEN [s EXCEPT !.call[c].st = "rejected", !.call[c].how = how]
    ELSE s

\* The body of jsonpFetch up to its return: register the callback, append
\* the script, arm the timer.
jsonpFetch(s, c) ==
  [s EXCEPT !.win = Put(@, cbNameIn(s, c), c),
            !.dom = Append(@, c),
            !.timers = Append(@, c),
            !.call[c] = [st |-> "pending", val |-> Null, net |-> "loading",
                         at |-> s.now, how |-> "none"]]

\* window[callbackName](json) as registered by call c
onCallback(s, c, json) == resolveCall(cleanup(clearTimeout(s, c), c), c, json)
\* script.onerror of call c
onScriptError(s, c) == rejectCall(cleanup(clearTimeout(s, c), c), c, "error")
\* A timeout handler that reports the failure and releases nothing: the
\* behaviour C8 excludes.
onTimeoutNoCleanup(s, c) == rejectCall(s, c, "timeout")
\* the setTimeout handler of call c
onTimeout(s, c) == rejectCall(cleanup(s, c), c, "timeout")

\* ------------------------------------------ marketService.fetchStockData
K(r) == <<r, "kline">>
S(r) == <<r, "snap">>
F(r) == <<r, "fin">>
Q(r) == <<r, "qq">>

\* The promise fetchStockData returned settles.
returnRecord(s, r, rec) ==
  [s EXCEPT !.req[r].pc = "done", !.req[r].outcome = "returned", !.req[r].out = rec,
            !.req[r].pend = Null]
rejectFetch(s, r) ==
  [s EXCEPT !.req[r].pc = "done", !.req[r].outcome = "rejected", !.req[r].pend = Null]

\* setCachedData(code, data): db.set is entered; openDB() is pending.
setCachedData(s, r, data) ==
  [s EXCEPT !.req[r].pc = "setOpen", !.req[r].pend = data, !.req[r].dbres = "pending"]

\* Step 4 (`if (!success)`: mock data) and step 5 (enrichment, snapshot).
afterSecondary(s, r) ==
  IF ~s.req[r].success
    THEN setCachedData([s EXCEPT !.req[r].winner = "synthetic"], r,
                       generateMockData(s.req[r].code))
    ELSE setCachedData(s, r, buildResult(s.req[r].code, s.req[r].candles,
                                         s.req[r].financials))

\* fetchTencentData is invoked; it runs up to its await.
trySecondary(s, r) == [jsonpFetch(s, Q(r)) EXCEPT !.req[r].pc = "secondary"]

\* Step 3 without its `if (!success)` guard: the behaviour C3 excludes.
afterPrimaryUnguarded(s, r) == trySecondary(s, r)
\* Step 3: `if (!success)` try the backup source; otherwise control is at step 4.
afterPrimary(s, r) ==
  IF ~s.req[r].success THEN trySecondary(s, r) ELSE [s EXCEPT !.req[r].pc = "step4"]

\* candles = res.candles; financials = res.financials; success = true
adapterWon(s, r, who, candles, financials) ==
  [s EXCEPT !.req[r].candles = candles, !.req[r].financials = financials,
            !.req[r].success = TRUE, !.req[r].winner = who]

\* pSnap without its .catch: the behaviour C9 excludes.
pSnapUncaught(s, r) == [st |-> s.call[S(r)].st, val |-> s.call[S(r)].val]
\* pSnap = jsonpFetch(snapshotUrl, snapCb).catch(e => null)
pSnap(s, r) ==
  IF s.call[S(r)].st = "rejected" THEN [st |-> "resolved", val |-> Null]
  ELSE [st |-> s.call[S(r)].st, val |-> s.call[S(r)].val]

\* pDeep = fetchFinancialProfile(...): its try/catch returns {} on a failure
pDeep(s, r) ==
  IF s.call[F(r)].st = "rejected" THEN [st |-> "resolved", val |-> EmptyFin]
  ELSE IF s.call[F(r)].st = "resolved"
    THEN [st |-> "resolved", val |-> financialProfile(s.call[F(r)].val)]
    ELSE [st |-> "pending", val |-> EmptyFin]

\* `!klineRes || !klineRes.data || !klineRes.data.klines` is false
klineUsable(klineRes) == klineRes # Null /\ klineRes.data # Null

\* Step 2: fetchEastMoneyData after its three calls are issued (await
\* pKline; await Promise.all([pSnap, pDeep]); the check of the payload),
\* inside fetchStockData's try/catch. Control stays at the await ("primary")
\* or reaches step 3.
primaryStep(s, r) ==
  LET k == s.call[K(r)]
      ps == pSnap(s, r)
      pd == pDeep(s, r)
      thrown == IF k.st = "rejected" THEN "EastMoney K-Line fetch failed"
                ELSE IF k.st # "resolved" THEN ""
                ELSE IF ps.st = "rejected" \/ pd.st = "rejected" THEN "JSONP"
                ELSE IF ps.st = "pending" \/ pd.st = "pending" THEN ""
                ELSE IF ~klineUsable(k.val) THEN "EastMoney K-Line empty data"
                ELSE ""
      returned == k.st = "resolved" /\ ps.st = "resolved" /\ pd.st = "resolved"
                  /\ klineUsable(k.val)
  IN  IF thrown # "" THEN [s EXCEPT !.req[r].emError = thrown, !.req[r].pc = "step3"]
      ELSE IF returned
        THEN [adapterWon(s, r, "primary", emCandles(k.val.data.klines),
                         emFinancials(pd.val, ps.val)) EXCEPT !.req[r].pc = "step3"]
        ELSE s

\* `!json || !json.data || !json.data[symbol] || !json.data[symbol].day` is false
qqUsable(json, symbol) == json # Null /\ json.symbol = symbol /\ json.node # Null

\* Step 3's body: fetchTencentData after its await, inside the try/catch.
\* Control stays at the await ("secondary") or reaches step 4.
secondaryStep(s, r) ==
  LET q == s.call[Q(r)]
  IN  IF q.st = "pending" THEN s
      ELSE IF q.st = "resolved" /\ qqUsable(q.val, getTencentSymbol(s.req[r].code))
        THEN [adapterWon(s, r, "secondary", qqCandles(q.val.node.day),
                         qqFinancials(q.val.node.qt)) EXCEPT !.req[r].pc = "step4"]
        ELSE [s EXCEPT !.req[r].pc = "step4"]

\* The continuations of request r that a settled promise makes runnable,
\* run until the request awaits again.
advance(s, r) ==
  LET s2 == IF s.req[r].pc = "primary" THEN primaryStep(s, r)
            ELSE IF s.req[r].pc = "secondary" THEN secondaryStep(s, r)
            ELSE s
      s3 == IF s2.req[r].pc = "step3" THEN afterPrimary(s2, r) ELSE s2
  IN  IF s3.req[r].pc = "step4" THEN afterSecondary(s3, r) ELSE s3

\* After a cache miss: the callback prefix is taken from the clock and
\* fetchEastMoneyData issues pKline, pSnap and pDeep.
afterMiss(s, r) ==
  LET t == [s EXCEPT !.req[r].ts = s.now, !.req[r].pc = "primary"]
  IN  jsonpFetch(jsonpFetch(jsonpFetch(t, K(r)), S(r)), F(r))

\* ------------------------------------------------------------ utils/db
\* (db.get without its expiry test)
expiredNever(record, t) == FALSE
expired(record, t) == record.expiry # 0 /\ t > record.expiry

\* (one object store for both names)
cellShared(sn, key) == <<MARKET, key>>
\* db.transaction(storeName).objectStore(storeName): where `key` lives.
cell(sn, key) == <<sn, key>>

\* db.transaction(storeName, mode): IndexedDB runs the transactions on one
\* object store in the order they were created.
Tx(by, who, op, sn, key) == [by |-> by, who |-> who, op |-> op, sn |-> sn, key |-> key]
\* The transaction at the head of the queue is the one `by`/`who` waits for.
TxTurn(s, by, who) == s.txq # <<>> /\ Head(s.txq).by = by /\ Head(s.txq).who = who
\* The lazy delete of db.get's onsuccess handler: a new readwrite
\* transaction, created when the handler runs (nothing if that throws).
lazyDelete(s, sn, key, delOk) ==
  IF cell(sn, key) \in DOMAIN s.store /\ expired(s.store[cell(sn, key)], s.now) /\ delOk
    THEN [s EXCEPT !.txq = Append(@, Tx("db", 0, "del", sn, key))]
    ELSE s

\* (db.get resolving to the stored wrapper instead of its data)
getValueWrapped(s, key) == IF key \notin DOMAIN s.store THEN Null ELSE s.store[key]
\* db.get's onsuccess handler for `key`: the value the get resolves to.
getValue(s, key) ==
  IF key \notin DOMAIN s.store THEN Null
  ELSE IF expired(s.store[key], s.now) THEN Null
  ELSE s.store[key].data

\* db.set's record for a payload written at time t (expiry 0: none)
cacheRecord(data, ttlMs, t) ==
  [data |-> data, expiry |-> IF ttlMs > 0 THEN t + ttlMs ELSE 0, timestamp |-> t]

\* The promise a db.get / db.set returned settles; fetchStockData awaits it
\* outside any try/catch, so a rejection rejects fetchStockData.
dbResolved(s, r) == [s EXCEPT !.req[r].dbres = "resolved"]
dbRejected(s, r) == rejectFetch([s EXCEPT !.req[r].dbres = "rejected"], r)

\* get: openDB() settled. A failed open is caught by the try/catch (null);
\* db.transaction() throwing inside the promise executor rejects the
\* promise, which was returned, not awaited, inside the try.
getOpened(s, r, o) ==
  CASE o = "openFail" -> afterMiss(dbResolved(s, r), r)
    [] o = "txThrow" -> dbRejected(s, r)
    [] o = "ok" -> [s EXCEPT !.req[r].pc = "getReq",
                             !.txq = Append(@, Tx("fetch", r, "get", MARKET,
                                                  cacheKey(s.req[r].code)))]

\* get: the request's onsuccess (absent, expired with its lazy delete, or
\* the payload) / onerror.
getDone(s, r, o, delOk) ==
  LET key == <<MARKET, cacheKey(s.req[r].code)>>
      v == getValue(s, key)
      u == [s EXCEPT !.txq = Tail(@)]
      t == dbResolved(lazyDelete(u, MARKET, cacheKey(s.req[r].code), delOk), r)
  IN  IF o = "error" THEN dbRejected(u, r)
      ELSE IF v = Null THEN afterMiss(t, r)
      ELSE returnRecord([t EXCEPT !.req[r].winner = "cache"], r, v)

\* set: openDB() settled.
setOpened(s, r, o) ==
  CASE o = "openFail" -> returnRecord(dbResolved(s, r), r, s.req[r].pend)
    [] o = "txThrow" -> dbRejected(s, r)
    [] o = "ok" -> [s EXCEPT !.req[r].pc = "setReq", !.req[r].wt = s.now,
                             !.txq = Append(@, Tx("fetch", r, "put", MARKET,
                                                  cacheKey(s.req[r].code)))]

\* set: the put's onsuccess / onerror.
setDone(s, r, o) ==
  LET key == <<MARKET, cacheKey(s.req[r].code)>>
      u == [s EXCEPT !.txq = Tail(@)]
  IN  IF o = "error" THEN dbRejected(u, r)
      ELSE returnRecord(
             dbResolved([u EXCEPT !.store = Put(@, key,
                           cacheRecord(s.req[r].pend, CACHE_TTL_MS, s.req[r].wt))], r),
             r, s.req[r].pend)

\* -------------------------------------------------------------- actions
\* A record an earlier session left in the cache.
CachedSample(code) == buildResult(code, emCandles(EmKlines(MaxBars)), EmptyFin)
Code1 == <<"s", "h", ".", "6">>
InitStores ==
  { [k \in {} |-> Null],
    (<<MARKET, cacheKey(Code1)>> :> cacheRecord(CachedSample(Code1), CACHE_TTL_MS, Now0)),
    (<<MARKET, cacheKey(Code1)>> :> cacheRecord(CachedSample(Code1), CACHE_TTL_MS, 1)) }

InitFetch ==
  /\ now = Now0
  /\ req = [r \in Reqs |-> NoReq]
  /\ call = [c \in Calls |-> NoCall]
  /\ win = [k \in {} |-> Null]
  /\ dom = <<>>
  /\ timers = <<>>
  /\ store \in InitStores
  /\ txq = <<>>
  /\ rel = [c \in Calls |-> [cb |-> 0, scr |-> 0]]

Init ==
  /\ InitFetch
  /\ dbc = <<>>
  /\ obs = <<>>
  /\ io = <<>>
  /\ bao = <<>>
  /\ hook = <<>>

\* fetchStockData(code, name) is called: getCachedData -> db.get -> openDB().
\* (Requests are interchangeable; they are numbered in the order they start.)
Start(r, code) ==
  /\ req[r].pc = "idle"
  /\ \A q \in Reqs : q < r => req[q].pc # "idle"
  /\ Commit([Cur EXCEPT !.req[r].pc = "getOpen", !.req[r].code = code,
                         !.req[r].dbres = "pending"])

\* IndexedDB: the open request of a pending db.get / db.set settles.
DbOpened(r, o) ==
  /\ req[r].pc \in {"getOpen", "setOpen"}
  /\ Commit(IF req[r].pc = "getOpen" THEN getOpened(Cur, r, o) ELSE setOpened(Cur, r, o))

\* IndexedDB: the get / put request of a pending db.get / db.set settles.
DbRequestDone(r, o, delOk) ==
  /\ req[r].pc \in {"getReq", "setReq"}
  /\ TxTurn(Cur, "fetch", r)
  /\ req[r].pc = "setReq" => delOk
  /\ Commit(IF req[r].pc = "getReq" THEN getDone(Cur, r, o, delOk) ELSE setDone(Cur, r, o))

\* IndexedDB: the transaction of a lazy delete runs.
LazyDelete(sn, key) ==
  /\ txq # <<>> /\ Head(txq).op = "del" /\ Head(txq).sn = sn /\ Head(txq).key = key
  /\ Commit([Cur EXCEPT !.txq = Tail(@), !.store = Without(@, cell(sn, key))])

\* What the provider may answer to the script of call c.
Payloads(c) ==
  CASE c[2] = "kline" -> KlinePayloads
    [] c[2] = "snap" -> SnapPayloads
    [] c[2] = "fin" -> DeepPayloads
    [] c[2] = "qq" -> QqPayloads(getTencentSymbol(req[c[1]].code))

\* The script of call c arrives and runs `callbackName(json)`: the callback
\* registered under that name, whoever registered it, is invoked; with no
\* such callback the script throws and nothing else happens.
ScriptLoaded(c, json) ==
  /\ call[c].net = "loading"
  /\ json \in Payloads(c)
  /\ LET s == [Cur EXCEPT !.call[c].net = "loaded"]
         name == cbName(c)
     IN  IF name \in DOMAIN win
           THEN Commit(advance(onCallback(s, win[name], json), Owner(win[name])))
           ELSE Commit(s)

\* The script of call c fails to load: its onerror handler runs.
ScriptFailed(c) ==
  /\ call[c].net = "loading"
  /\ Commit(advance(onScriptError([Cur EXCEPT !.call[c].net = "failed"], c), Owner(c)))

\* The oldest pending timer fires, REQUEST_TIMEOUT or more after it was set
\* (all timers have the same delay, so they fire in creation order).
TimerFired(c) ==
  /\ timers # <<>> /\ c = Head(timers)
  /\ LET t == IF now < call[c].at + REQUEST_TIMEOUT
                THEN call[c].at + REQUEST_TIMEOUT ELSE now
         s == [Cur EXCEPT !.now = t, !.timers = Tail(@), !.call[c].at = 0]
     IN  Commit(advance(onTimeout(s, c), Owner(c)))

\* A millisecond passes. (Only the callback prefix reads the clock, so the
\* step matters only between a request that has taken its prefix at this
\* time and one that has not taken it yet.)
Tick ==
  /\ \E r \in Reqs : req[r].pc \in {"idle", "getOpen", "getReq"}
  /\ \E r \in Reqs : req[r].pc \notin {"idle", "getOpen", "getReq"} /\ req[r].ts = now
  /\ Commit([Cur EXCEPT !.now = @ + 1])

\* One fetchStockData invocation in an arbitrary environment.
Solo == {1}
Next ==
  \/ \E r \in Solo, code \in Codes : Start(r, code)
  \/ \E r \in Solo, o \in {"ok", "openFail", "txThrow"} : DbOpened(r, o)
  \/ \E r \in Solo, o \in {"success", "error"}, delOk \in BOOLEAN : DbRequestDone(r, o, delOk)
  \/ \E code \in Codes : LazyDelete(MARKET, cacheKey(code))
  \/ \E c \in Calls : \E json \in Payloads(c) : ScriptLoaded(c, json)
  \/ \E c \in Calls : ScriptFailed(c)
  \/ \E c \in Calls : TimerFired(c)

Spec == Init /\ [][Next]_vars

\* NumReq concurrent invocations for the same code on a cold cache, with a
\* healthy IndexedDB. The quote providers answer with a full series, fail
\* to load or stay silent; the snapshot and deep-fundamentals providers
\* never answer, so those calls end by their timeout.
InitConc == Init /\ store = [k \in {} |-> Null]
QuoteCalls == {c \in Calls : c[2] \in {"kline", "qq"}}
ConcPayload(c) ==
  IF c[2] = "kline" THEN [data |-> [klines |-> EmKlines(MaxBars)]]
  ELSE [symbol |-> getTencentSymbol(req[c[1]].code), node |-> QqNode(MaxBars)]
NextConc ==
  \/ \E r \in Reqs : Start(r, Code1)
  \/ \E r \in Reqs : DbOpened(r, "ok")
  \/ \E r \in Reqs : DbRequestDone(r, "success", TRUE)
  \/ \E c \in QuoteCalls : ScriptLoaded(c, ConcPayload(c))
  \/ \E c \in QuoteCalls : ScriptFailed(c)
  \/ \E c \in Calls : TimerFired(c)
  \/ Tick

SpecConc == InitConc /\ [][NextConc]_vars

\* ----------------------------------------------------- db, called directly
\* A reader (db.get) and a writer (db.set, db.clear) use both object stores
\* under the same key string, while the clock advances.
Reader == 1
Writer == 2
Clients == {Reader, Writer}
DbKeys == {"k"}
\* What the writer stores: <<store, payload, ttlMs>>.
DbWrites == {<<MARKET, Str("a"), DbTtl>>, <<MARKET, Str("b"), DbTtl>>,
             <<ANALYSIS, Str("b"), 0>>}
NoDbc == [op |-> "none", sn |-> MARKET, key |-> "k", data |-> Null, ttl |-> 0,
          pc |-> "idle", rec |-> Null, res |-> Null, ref |-> Null]
NoObs == [set |-> Null, gone |-> FALSE]

\* Another caller's set of this key or clear of this store is under way.
otherWrites(s, c, sn, key) ==
  \/ \E d \in Clients \ {c} :
       /\ s.dbc[d].pc \in {"open", "req"} /\ s.dbc[d].sn = sn
       /\ s.dbc[d].op = "clear" \/ (s.dbc[d].op = "set" /\ s.dbc[d].key = key)
  \/ \E i \in 1..Len(s.txq) : s.txq[i].op = "clear" /\ s.txq[i].sn = sn

\* db.get / db.set / db.clear is called: openDB() is pending.
dbCall(s, c, op, sn, key, data, ttl) ==
  [s EXCEPT !.dbc[c] = [NoDbc EXCEPT !.op = op, !.sn = sn, !.key = key, !.data = data,
                                     !.ttl = ttl, !.pc = "open",
                                     !.ref = s.obs[<<sn, key>>]],
            !.obs = [x \in DOMAIN @ |->
                       IF (op = "set" /\ x = <<sn, key>>) \/ (op = "clear" /\ x[1] = sn)
                         THEN NoObs ELSE @[x]]]

\* openDB() settled. A failed open is caught: get resolves to null, set and
\* clear return silently. Otherwise the transaction is created and the
\* request issued; clear does not wait for it.
dbOpened(s, c, o) ==
  LET d == s.dbc[c]
  IN  IF o = "openFail" THEN [s EXCEPT !.dbc[c] = NoDbc]
      ELSE CASE d.op = "get" ->
                  [s EXCEPT !.dbc[c].pc = "req",
                            !.txq = Append(@, Tx("client", c, "get", d.sn, d.key))]
             [] d.op = "set" ->
                  [s EXCEPT !.dbc[c].pc = "req",
                            !.dbc[c].rec = cacheRecord(d.data, d.ttl, s.now),
                            !.txq = Append(@, Tx("client", c, "put", d.sn, d.key))]
             [] d.op = "clear" ->
                  [s EXCEPT !.dbc[c] = NoDbc,
                            !.txq = Append(@, Tx("db", 0, "clear", d.sn, d.key))]

\* The get / put request of the call succeeds: the promise resolves.
dbDone(s, c, delOk) ==
  LET d == s.dbc[c]
      u == [s EXCEPT !.txq = Tail(@)]
      at == cell(d.sn, d.key)
      v == getValue(s, at)
      stale == at \in DOMAIN s.store /\ v = Null
  IN  IF d.op = "get"
        THEN [lazyDelete(u, d.sn, d.key, delOk) EXCEPT
                !.dbc[c] = [NoDbc EXCEPT !.res = v],
                !.obs[<<d.sn, d.key>>].gone = @ \/ stale]
        ELSE [u EXCEPT
                !.store = Put(@, at, d.rec), !.dbc[c] = NoDbc,
                !.obs[<<d.sn, d.key>>] =
                   IF otherWrites(s, c, d.sn, d.key) THEN NoObs
                   ELSE [set |-> d.rec, gone |-> FALSE]]

InitDb ==
  /\ InitFetch /\ store = [k \in {} |-> Null]
  /\ dbc = [c \in Clients |-> NoDbc]
  /\ obs = [x \in STORES \X DbKeys |-> NoObs]
  /\ io = <<>> /\ bao = <<>> /\ hook = <<>>

DbGet(c, sn, key) ==
  /\ dbc[c].pc = "idle"
  /\ Commit(dbCall(Cur, c, "get", sn, key, Null, 0))
DbSet(c, sn, key, data, ttl) ==
  /\ dbc[c].pc = "idle"
  /\ Commit(dbCall(Cur, c, "set", sn, key, data, ttl))
DbClear(c, sn) ==
  /\ dbc[c].pc = "idle"
  /\ Commit(dbCall(Cur, c, "clear", sn, "k", Null, 0))
DbCallOpened(c, o) ==
  /\ dbc[c].pc = "open"
  /\ o = "ok" => Len(txq) < MaxTx
  /\ Commit(dbOpened(Cur, c, o))
DbCallDone(c, delOk) ==
  /\ dbc[c].pc = "req" /\ TxTurn(Cur, "client", c)
  /\ dbc[c].op = "set" => delOk
  /\ Commit(dbDone(Cur, c, delOk))
\* IndexedDB: the transaction of a clear runs.
ClearRun(sn) ==
  /\ txq # <<>> /\ Head(txq).op = "clear" /\ Head(txq).sn = sn
  /\ Commit([Cur EXCEPT !.txq = Tail(@),
                        !.store = [x \in {y \in DOMAIN @ : y # cell(sn, y[2])} |-> @[x]]])
\* A millisecond passes.
Elapse ==
  /\ now < Now0 + MaxElapse
  /\ Commit([Cur EXCEPT !.now = @ + 1])

NextDb ==
  \/ \E sn \in STORES, k \in DbKeys : DbGet(Reader, sn, k)
  \/ \E w \in DbWrites, k \in DbKeys : DbSet(Writer, w[1], k, w[2], w[3])
  \/ \E sn \in STORES : DbClear(Writer, sn)
  \/ \E c \in Clients, o \in {"ok", "openFail"} : DbCallOpened(c, o)
  \/ \E c \in Clients, delOk \in BOOLEAN : DbCallDone(c, delOk)
  \/ \E sn \in STORES, k \in DbKeys : LazyDelete(sn, k)
  \/ \E sn \in STORES : ClearRun(sn)
  \/ Elapse

SpecDb == InitDb /\ [][NextDb]_vars

\* ------------------------------------------------------- pure functions
\* The reconciliation of step 5, the synthetic generator and calculateMA,
\* each applied once to an argument drawn from a bounded set.

\* Partial snapshots such as the Primary adapter returns them: a field is
\* absent (null) or a number, 0 and negative numbers included (a ratio
\* computed from a missing or zero figure is 0, a loss gives a negative
\* P/E); the report date is absent or a date.
FinVals == {Null, FInt(0), FInt(-5), FInt(4), FInt(20)}
FinInputs ==
  {f \in [{"peTTM", "pb", "roe", "debtRatio", "netMargin", "reportDate"}
            -> FinVals \cup {Str(Today - 10)}] :
     /\ f.reportDate \in {Null, Str(Today - 10)}
     /\ \A k \in DOMAIN f \ {"reportDate"} : f[k] \in FinVals}

\* Number.toFixed(2) followed by parseFloat, for x >= 0.
toFixed2(x) == Frac((200 * x.n + x.d) \div (2 * x.d), 100)
\* The dates of the bars generateMockData pushes when run on day `today`
\* (days are numbered, day 0 a Sunday): i = MockWindow down to 0, weekends
\* skipped.
mockDates(today) ==
  SelectSeq([j \in 1..(MockWindow + 1) |-> today - (MockWindow + 1) + j],
            LAMBDA d : d % 7 \notin {0, 6})
\* The placeholder financials, u being what rnd() returns (0 <= u < 1);
\* the two capitalisations and the share count are in millions.
mockFinancials(u) ==
  [peTTM |-> toFixed2(FAdd(FInt(15), FMul(u, FInt(20)))),
   pb |-> toFixed2(FAdd(Frac(3, 2), FMul(u, FInt(5)))),
   dividendYield |-> toFixed2(FAdd(FInt(1), FMul(u, FInt(3)))),
   marketCap |-> FInt(50000), circulatingCap |-> FInt(50000),
   turnoverRate |-> toFixed2(FAdd(Frac(1, 2), FMul(u, FInt(3)))),
   totalShares |-> FInt(2000),
   roe |-> toFixed2(FAdd(FInt(8), FMul(u, FInt(12)))),
   netMargin |-> toFixed2(FAdd(FInt(10), FMul(u, FInt(15)))),
   debtRatio |-> toFixed2(FAdd(FInt(30), FMul(u, FInt(30)))),
   grossMargin |-> toFixed2(FAdd(FInt(40), FMul(u, FInt(20)))),
   assetTurnover |-> toFixed2(FAdd(Frac(1, 2), FMul(u, Frac(1, 2)))),
   equityMultiplier |-> toFixed2(FAdd(Frac(3, 2), u)),
   reportDate |-> Str("2024-06-30 (Mock)")]
MockInputs == [today : Today..(Today + 6), u : {FInt(0), Frac(1, 3)}]

\* Candle series of up to MaxLen bars and the periods asked for.
MaSeries ==
  UNION {[1..n -> {1, 2, 5}] : n \in 0..MaxLen}
MaInputs ==
  [data : {[i \in 1..Len(q) |-> [date |-> i, close |-> q[i]]] : q \in MaSeries},
   period : {1, 2, 3, 5}]

\* Series of up to MaxKdjLen bars for calculateKDJ; the providers' figures
\* are taken as they come, so a close may lie outside [low, high].
KdjBars == [low : {1, 2}, high : {2, 3}, close : {1, 2, 3, 4}]
KdjInputs ==
  [data : UNION {[1..n -> KdjBars] : n \in 0..MaxKdjLen}, n : {1, 2}]

\* Provider series of up to MaxBars bars and the orders the nine passes are
\* applied in: the five families in any order, the moving averages by
\* rising or by falling period.
PassSeries ==
  {[i \in 1..Len(q) |->
      [date |-> i, open |-> q[i], close |-> q[i], high |-> q[i] + 1, low |-> q[i] - 1,
       volume |-> 100, amount |-> 100 * q[i], pctChg |-> 0]] :
     q \in UNION {[1..n -> {1, 2, 5}] : n \in 0..MaxBars}}
PassOrders ==
  LET fam == {"ma", "macd", "rsi", "kdj", "boll"}
      mas == {<<"ma5", "ma10", "ma20", "ma50", "ma200">>,
              <<"ma200", "ma50", "ma20", "ma10", "ma5">>}
      ex(f, m) == IF f = "ma" THEN m ELSE <<f>>
  IN  {ex(q[1], m) \o ex(q[2], m) \o ex(q[3], m) \o ex(q[4], m) \o ex(q[5], m) :
         q \in {x \in [1..5 -> fam] : \A f \in fam : \E i \in 1..5 : x[i] = f},
         m \in mas}

InitPure ==
  /\ InitFetch /\ store = [k \in {} |-> Null]
  /\ dbc = <<>> /\ obs = <<>> /\ bao = <<>> /\ hook = <<>>
  /\ \/ \E f \in FinInputs : io = [fn |-> "reconcile", phase |-> "in", arg |-> f, res |-> Null]
     \/ \E m \in MockInputs : io = [fn |-> "mock", phase |-> "in", arg |-> m, res |-> Null]
     \/ \E a \in MaInputs : io = [fn |-> "ma", phase |-> "in", arg |-> a, res |-> Null]
     \/ \E a \in MaInputs : io = [fn |-> "rsi", phase |-> "in", arg |-> a, res |-> Null]
     \/ \E a \in MaInputs : io = [fn |-> "boll", phase |-> "in", arg |-> a, res |-> Null]
     \/ \E d \in PassSeries, o \in PassOrders :
          io = [fn |-> "passes", phase |-> "in", arg |-> [data |-> d, order |-> o],
                res |-> Null]
     \/ \E a \in KdjInputs : io = [fn |-> "kdj", phase |-> "in", arg |-> a, res |-> Null]

ApplyReconcile ==
  /\ io.fn = "reconcile" /\ io.phase = "in"
  /\ Commit([Cur EXCEPT !.io.phase = "out", !.io.res = reconcile(io.arg)])
ApplyMock ==
  /\ io.fn = "mock" /\ io.phase = "in"
  /\ Commit([Cur EXCEPT !.io.phase = "out",
                        !.io.res = [dates |-> mockDates(io.arg.today),
                                    financials |-> mockFinancials(io.arg.u)]])
ApplyMA ==
  /\ io.fn = "ma" /\ io.phase = "in"
  /\ Commit([Cur EXCEPT !.io.phase = "out",
                        !.io.res = calculateMA(io.arg.data, io.arg.period)])
ApplyRSI ==
  /\ io.fn = "rsi" /\ io.phase = "in"
  /\ Commit([Cur EXCEPT !.io.phase = "out",
                        !.io.res = calculateRSI(io.arg.data, io.arg.period)])

ApplyKDJ ==
  /\ io.fn = "kdj" /\ io.phase = "in"
  /\ Commit([Cur EXCEPT !.io.phase = "out",
                        !.io.res = calculateKDJ(io.arg.data, io.arg.n, 3, 3)])

ApplyBollinger ==
  /\ io.fn = "boll" /\ io.phase = "in"
  /\ Commit([Cur EXCEPT !.io.phase = "out",
                        !.io.res = calculateBollinger(io.arg.data, io.arg.period, 2)])

ApplyPasses ==
  /\ io.fn = "passes" /\ io.phase = "in"
  /\ Commit([Cur EXCEPT !.io.phase = "out",
                        !.io.res = applyPasses(io.arg.order, io.arg.data)])

NextPure ==
  \/ ApplyReconcile \/ ApplyMock \/ ApplyMA \/ ApplyRSI \/ ApplyKDJ \/ ApplyBollinger
  \/ ApplyPasses

SpecPure == InitPure /\ [][NextPure]_vars

\* ------------------------------------------ baostockService + useStockData
\* One useStockData(code, name) mounted for one code: its effect calls
\* baostockService.fetchStockData, which tries the backend proxy, then
\* Tencent, then the two EastMoney mirrors over JSONP.
BsCalls == {"qq", "em1", "em2"}
\* cb_qq_k_<prefix> for Tencent; cb_em_k_<prefix> for Mirror 1 and for
\* Mirror 2 alike (one `cb` for both urls).
bsCbName(c) ==
  IF c = "qq" THEN <<"cb_qq_k_", cbPrefix(Code1, Now0)>>
  ELSE <<"cb_em_k_", cbPrefix(Code1, Now0)>>
BsCbNames == {bsCbName(c) : c \in BsCalls}
LIVE_ERROR == "Unable to retrieve real market data. Please check network connection."
NO_DATA_ERROR == "No market data available for this stock."

\* What the server of JSONP call c may send: a body with a series of n
\* bars (n = 0: an empty list), or a body without the series.
BsPayloads(c) ==
  {[from |-> c, kind |-> "bars", n |-> n] : n \in {0, MaxBars}}
    \cup {[from |-> c, kind |-> "other", n |-> 0]}
\* What the backend proxy may answer.
ProxyAnswers == {"data", "empty", "notOk", "networkError"}

\* (own: what became of the request of the call itself: "timeout", "error",
\* or the kind of body its server sent)
NoBsCall == [st |-> "none", val |-> Null, net |-> "none", timer |-> FALSE, own |-> "none"]
bsOwn(b, c, what) == IF b.js[c].own = "none" THEN [b EXCEPT !.js[c].own = what] ELSE b
NoBao ==
  [pc |-> "idle", proxy |-> "none", proxyTimer |-> FALSE,
   js |-> [c \in BsCalls |-> NoBsCall],
   win |-> [n \in BsCbNames |-> "none"], dom |-> <<>>,
   snap |-> "none", snapTimer |-> FALSE, snapInDom |-> FALSE,
   candles |-> Null, out |-> Null,
   data |-> Null, loading |-> FALSE, error |-> Null]

\* jsonpFetch's cleanup() in the closure of call c.
bsCleanup(b, c) ==
  LET name == bsCbName(c)
      hit == {i \in 1..Len(b.dom) : bsCbName(b.dom[i]) = name}
      first == IF hit = {} THEN 0 ELSE CHOOSE i \in hit : \A j \in hit : i <= j
  IN  [b EXCEPT !.win[name] = "none",
                !.dom = IF first = 0 THEN @ ELSE RemoveAt(@, first)]

\* jsonpFetch(url, callbackName) for call c: the callback is registered
\* under the name, the script appended, the 5000 ms timer started.
bsJsonpFetch(b, c) ==
  [b EXCEPT !.js[c] = [st |-> "pending", val |-> Null, net |-> "loading", timer |-> TRUE,
                       own |-> "none"],
            !.win[bsCbName(c)] = c,
            !.dom = Append(@, c),
            !.pc = c]

\* useStockData: the catch and the finally of loadData.
hookRejected(b, msg) ==
  [b EXCEPT !.pc = "settled", !.out = [ok |-> FALSE, msg |-> msg],
            !.error = Str(msg), !.loading = FALSE]
\* useStockData: setData(result), then the finally of loadData.
hookResolved(b, result) ==
  [b EXCEPT !.pc = "settled", !.out = [ok |-> TRUE, data |-> result],
            !.data = result, !.loading = FALSE]

\* fetchStockData from its safety fallback on.
bsFinish(b, candles, financials) ==
  IF candles.n = 0 THEN hookRejected(b, NO_DATA_ERROR)
  ELSE hookResolved(b, [code |-> Code1, candles |-> candles, financials |-> financials])

\* fetchStockData once the candles of a JSONP source are in:
\* fetchSnapshotTencent appends its script and starts its 3000 ms timer.
bsGotCandles(b, candles) ==
  [b EXCEPT !.candles = candles, !.pc = "snap", !.snap = "loading",
            !.snapTimer = TRUE, !.snapInDom = TRUE]

\* The code that awaits call c, resumed: fetchKLinesTencent for qq,
\* tryFetchEastMoney and fetchKLinesEastMoney for the mirrors.
bsResume(b, c) ==
  LET v == b.js[c].val
      has == b.js[c].st = "resolved" /\ v # Null /\ v.kind = "bars"
      candles == [from |-> v.from, n |-> v.n]
  IN  IF has THEN bsGotCandles(b, candles)
      ELSE IF c = "qq" THEN bsJsonpFetch(b, "em1")
      ELSE IF c = "em1" THEN bsJsonpFetch(b, "em2")
      ELSE hookRejected(b, LIVE_ERROR)

\* resolve(json) / reject(error) of call c's promise; a settled promise
\* stays as it is.
bsSettle(b, c, st, val) ==
  IF b.js[c].st # "pending" THEN b
  ELSE bsResume([b EXCEPT !.js[c].st = st, !.js[c].val = val], c)

\* The proxy attempt has failed: fetchStockData turns to Tencent.
bsProxyFailed(b) == bsJsonpFetch(b, "qq")

InitBao ==
  /\ InitFetch /\ store = [k \in {} |-> Null]
  /\ dbc = <<>> /\ obs = <<>> /\ io = <<>> /\ hook = <<>>
  /\ bao = NoBao

\* The effect of useStockData runs: loadData() sets loading, clears error
\* and calls fetchStockData, which races the proxy against 1500 ms. On an
\* https page that is not localhost the proxy attempt throws at once.
BsLoad(https) ==
  /\ bao.pc = "idle"
  /\ LET b == [bao EXCEPT !.loading = TRUE, !.error = Null, !.proxyTimer = TRUE,
                          !.pc = "proxy",
                          !.proxy = IF https THEN "done" ELSE "pending"]
     IN  Commit([Cur EXCEPT !.bao = IF https THEN bsProxyFailed(b) ELSE b])

\* The fetch of the proxy settles.
BsProxyAnswered(a) ==
  /\ bao.proxy = "pending"
  /\ LET b == [bao EXCEPT !.proxy = "done"]
     IN  Commit([Cur EXCEPT !.bao =
           IF b.pc # "proxy" THEN b
           ELSE IF a = "data"
             THEN bsFinish(b, [from |-> "proxy", n |-> MaxBars], Null)
             ELSE bsProxyFailed(b)])

\* The 1500 ms timer of the race fires.
BsProxyTimerFired ==
  /\ bao.proxyTimer
  /\ LET b == [bao EXCEPT !.proxyTimer = FALSE]
     IN  Commit([Cur EXCEPT !.bao = IF b.pc = "proxy" THEN bsProxyFailed(b) ELSE b])

\* The script of call c arrives and runs `callbackName(json)`: the callback
\* registered under that name, if any, clears its timer, cleans up and
\* resolves its promise.
BsScriptLoaded(c, json) ==
  /\ bao.js[c].net = "loading"
  /\ LET b == bsOwn([bao EXCEPT !.js[c].net = "done"], c, json.kind)
         t == b.win[bsCbName(c)]
     IN  Commit([Cur EXCEPT !.bao =
           IF t = "none" THEN b
           ELSE bsSettle(bsCleanup([b EXCEPT !.js[t].timer = FALSE], t), t,
                         "resolved", json)])

\* The script of call c fails to load: its onerror clears the timer of c,
\* cleans up and resolves c with null.
BsScriptFailed(c) ==
  /\ bao.js[c].net = "loading"
  /\ Commit([Cur EXCEPT !.bao =
       bsSettle(bsCleanup(bsOwn([bao EXCEPT !.js[c].net = "done", !.js[c].timer = FALSE],
                                c, "error"), c),
                c, "resolved", Null)])

\* The 5000 ms timer of call c fires: cleanup, reject.
BsTimerFired(c) ==
  /\ bao.js[c].timer
  /\ Commit([Cur EXCEPT !.bao =
       bsSettle(bsCleanup(bsOwn([bao EXCEPT !.js[c].timer = FALSE], c, "timeout"), c),
                c, "rejected", Null)])

\* The snapshot script loads (its variable parsed or not) or fails:
\* fetchSnapshotTencent resolves either way.
BsSnapSettled(fin) ==
  /\ bao.snap = "loading"
  /\ Commit([Cur EXCEPT !.bao = bsFinish([bao EXCEPT !.snap = "done"], bao.candles, fin)])

\* The 3000 ms timer of fetchSnapshotTencent removes its script.
BsSnapTimerFired ==
  /\ bao.snapTimer
  /\ Commit([Cur EXCEPT !.bao.snapTimer = FALSE, !.bao.snapInDom = FALSE])

NextBao ==
  \/ \E https \in BOOLEAN : BsLoad(https)
  \/ \E a \in ProxyAnswers : BsProxyAnswered(a)
  \/ BsProxyTimerFired
  \/ \E c \in BsCalls : \E json \in BsPayloads(c) : BsScriptLoaded(c, json)
  \/ \E c \in BsCalls : BsScriptFailed(c)
  \/ \E c \in BsCalls : BsTimerFired(c)
  \/ \E fin \in {Null, [peTTM |-> FInt(12)]} : BsSnapSettled(fin)
  \/ BsSnapTimerFired

SpecBao == InitBao /\ [][NextBao]_vars

\* ------------------------------------- useStockData + useGeminiAnalysis
\* The Dashboard: useStockData(currentStock.code, currentStock.name) and
\* useGeminiAnalysis(stockData). A render reads the state of the hooks; the
\* effects whose dependencies changed run after it, with the values of that
\* render; React renders again before the next event when a setter changed
\* the state. fetchStockData and analyzeStockWithGemini are followed from
\* their call to their settling only.
Code2 == <<"s", "z", ".", "0">>
C(code) == [code |-> code]
\* What a render hands to the component.
hookView(h) ==
  [code |-> h.cur, data |-> h.data, loading |-> h.loading, error |-> h.error,
   analysis |-> h.analysis, analyzing |-> h.analyzing]
\* A setter was called with a new value: React renders again.
hookTouched(h) == [h EXCEPT !.dirty = (hookView(h) # h.rendered)]

InitHook ==
  /\ InitFetch /\ store = [k \in {} |-> Null]
  /\ dbc = <<>> /\ obs = <<>> /\ io = <<>> /\ bao = <<>>
  /\ hook = [cur |-> Code1, switches |-> 0,
             data |-> Null, loading |-> FALSE, error |-> Null, sdDeps |-> Null,
             fetches |-> {}, nf |-> 0, lastOk |-> FALSE,
             analysis |-> Null, analyzing |-> FALSE, lastCodeRef |-> Null,
             gaDeps |-> Null, timer |-> Null, runs |-> {}, nr |-> 0,
             rendered |-> [code |-> Code1, data |-> Null, loading |-> FALSE,
                           error |-> Null, analysis |-> Null, analyzing |-> FALSE],
             dirty |-> FALSE, eff |-> {"sd", "ga"}]

\* useStockData's effect, with the code of the render: loadData() up to
\* its await.
sdEffect(h) ==
  [h EXCEPT !.sdDeps = C(h.rendered.code),
            !.loading = TRUE, !.error = Null,
            !.nf = @ + 1, !.lastOk = FALSE,
            !.fetches = @ \cup {[n |-> h.nf + 1, code |-> h.rendered.code]}]

\* useGeminiAnalysis's effect, with the stockData of the render: first the
\* cleanup of the effect before it (clearTimeout), then the body.
gaEffect(h) ==
  LET sd == h.rendered.data
      h1 == [h EXCEPT !.timer = Null, !.gaDeps = sd]
  IN  IF sd = Null
        THEN [h1 EXCEPT !.analysis = Null, !.analyzing = FALSE]
        ELSE LET h2 == IF sd # h1.lastCodeRef
                         THEN [h1 EXCEPT !.analysis = Null, !.analyzing = TRUE,
                                         !.lastCodeRef = sd]
                         ELSE h1
             IN  [h2 EXCEPT !.timer = sd]

\* The user picks another stock: setCurrentStock.
HookSwitch(code) ==
  /\ ~hook.dirty /\ hook.eff = {}
  /\ hook.switches < MaxSwitch /\ code # hook.cur
  /\ Commit([Cur EXCEPT !.hook = hookTouched([hook EXCEPT !.cur = code, !.switches = @ + 1])])

\* React renders the Dashboard.
HookRender ==
  /\ hook.dirty /\ hook.eff = {}
  /\ Commit([Cur EXCEPT !.hook =
       [hook EXCEPT !.rendered = hookView(hook), !.dirty = FALSE,
                    !.eff = (IF hook.sdDeps # C(hook.cur) THEN {"sd"} ELSE {})
                              \cup (IF hook.gaDeps # hook.data THEN {"ga"} ELSE {})]])

\* The effects of the last render run, in the order of the hooks.
HookEffects ==
  /\ hook.eff # {}
  /\ LET h1 == IF "sd" \in hook.eff THEN sdEffect(hook) ELSE hook
         h2 == IF "ga" \in hook.eff THEN gaEffect(h1) ELSE h1
     IN  Commit([Cur EXCEPT !.hook = hookTouched([h2 EXCEPT !.eff = {}])])

\* fetchStockData(code, name) of fetch f settles: setData(result) or
\* setError(message), then the finally's setLoading(false).
HookFetchSettled(f, ok) ==
  /\ ~hook.dirty /\ hook.eff = {}
  /\ f \in hook.fetches
  /\ LET h == [hook EXCEPT !.fetches = @ \ {f},
                           !.lastOk = IF f.n = hook.nf THEN ok ELSE @,
                           !.loading = FALSE]
     IN  Commit([Cur EXCEPT !.hook = hookTouched(
           IF ok THEN [h EXCEPT !.data = C(f.code)]
           ELSE [h EXCEPT !.error = Str(LIVE_ERROR)])])

\* The 500 ms debounce timer fires: runAnalysis() up to its await.
HookDebounceFired ==
  /\ ~hook.dirty /\ hook.eff = {}
  /\ hook.timer # Null
  /\ Commit([Cur EXCEPT !.hook = hookTouched(
       [hook EXCEPT !.timer = Null, !.analyzing = TRUE, !.nr = @ + 1,
                    !.runs = @ \cup {[n |-> hook.nr + 1, code |-> hook.timer.code]}])])

\* analyzeStockWithGemini(stockData, language) of run a settles: the result
\* carries stock.code; result and analyzing are set when the code of the
\* run is still lastCodeRef.current.
HookAnalysisSettled(a, ok) ==
  /\ ~hook.dirty /\ hook.eff = {}
  /\ a \in hook.runs
  /\ LET h == [hook EXCEPT !.runs = @ \ {a}]
         same == C(a.code) = h.lastCodeRef
     IN  Commit([Cur EXCEPT !.hook = hookTouched(
           [h EXCEPT !.analysis = IF ok /\ same THEN [stockCode |-> a.code] ELSE @,
                     !.analyzing = IF same THEN FALSE ELSE @])])

NextHook ==
  \/ \E code \in {Code1, Code2} : HookSwitch(code)
  \/ HookRender
  \/ HookEffects
  \/ \E f \in hook.fetches : \E ok \in BOOLEAN : HookFetchSettled(f, ok)
  \/ HookDebounceFired
  \/ \E a \in hook.runs : \E ok \in BOOLEAN : HookAnalysisSettled(a, ok)

SpecHook == InitHook /\ [][NextHook]_vars

\* ------------------------------------------------------------ properties
InFlight(c) == call[c].st = "pending"
Settled(c) == call[c].st \in {"resolved", "rejected"}
ScriptInDom(c) == \E i \in 1..Len(dom) : dom[i] = c
Registered(c) == cbName(c) \in DOMAIN win /\ win[cbName(c)] = c
\* The record request r returns (or is about to store and return).
Rec(r) == IF req[r].pc = "done" THEN req[r].out ELSE req[r].pend
\* fetchStockData of r has left its Primary step.
PrimaryDecided(r) == req[r].emError # "" \/ req[r].winner = "primary"

\* C1: db.get and db.set never reject, whatever fails in the storage layer
\* (open failure, transaction error, request error): they resolve to "no
\* value" / return silently.
C1_DbNeverRejects == \A r \in Reqs : req[r].dbres # "rejected"

\* C2: when the Primary kline call times out, returns a malformed payload
\* or returns zero bars, the failure is recorded, the Secondary adapter is
\* attempted, and a zero-bar Primary result never wins.
C2_PrimaryFailureFailsOver ==
  \A r \in Reqs :
    LET k == call[K(r)]
        bad == \/ k.st = "rejected"
               \/ k.st = "resolved" /\ ~klineUsable(k.val)
               \/ k.st = "resolved" /\ klineUsable(k.val) /\ Len(k.val.data.klines) = 0
    IN  (PrimaryDecided(r) /\ bad) =>
          /\ req[r].emError # ""
          /\ call[Q(r)].st # "none"
          /\ req[r].winner # "primary"

\* C3: the failover short-circuits (once an adapter has succeeded no
\* lower-priority adapter is invoked and no synthetic data is produced), and
\* the candles returned are exactly the winning adapter's candles, raw fields
\* unchanged, in the same order.
C3_ShortCircuitAndWinnerCandles ==
  \A r \in Reqs :
    /\ req[r].winner = "primary" =>
         /\ call[Q(r)].st = "none"
         /\ req[r].success /\ req[r].emError = ""
         /\ Rec(r) # Null =>
              /\ Rec(r).kind = "real"
              /\ RawSeq(Rec(r).candles) = emCandles(call[K(r)].val.data.klines)
    /\ req[r].winner = "secondary" =>
         /\ req[r].success
         /\ Rec(r) # Null =>
              /\ Rec(r).kind = "real"
              /\ RawSeq(Rec(r).candles) = qqCandles(call[Q(r)].val.node.day)
    /\ req[r].winner = "synthetic" => ~req[r].success /\ call[Q(r)].st # "none"
C3_Witness ==
  \E r \in Reqs :
    /\ req[r].winner = "secondary" /\ req[r].outcome = "returned"
    /\ req[r].emError # ""
    /\ Len(req[r].out.candles) = MaxBars

\* C4: Primary and Secondary never run concurrently: while the Secondary
\* adapter's call is in flight no call of the Primary adapter is in flight.
C4_NoAdapterOverlap ==
  \A r \in Reqs :
    InFlight(Q(r)) => ~InFlight(K(r)) /\ ~InFlight(S(r)) /\ ~InFlight(F(r))

\* C10: with the Synthetic adapter wired in, fetchStockData never rejects:
\* for every combination of source outcomes a finished request has returned
\* a record.
C10_FetchNeverRejects ==
  \A r \in Reqs : req[r].pc = "done" => req[r].outcome = "returned" /\ req[r].out # Null

\* C9: the Primary adapter fails exactly when its kline call fails or the
\* kline payload carries no kline series; a failed snapshot or
\* deep-fundamentals call never fails the adapter and only leaves the
\* corresponding financial fields out.
C9_PrimaryFailsIffKlineFails ==
  \A r \in Reqs :
    LET k == call[K(r)]
        klineFailed == k.st = "rejected" \/ (k.st = "resolved" /\ ~klineUsable(k.val))
        joined == Settled(S(r)) /\ Settled(F(r))
    IN  /\ req[r].emError # "" => klineFailed
        /\ req[r].winner = "primary" => k.st = "resolved" /\ klineUsable(k.val) /\ joined
        /\ (k.st = "resolved" /\ klineUsable(k.val) /\ joined) => req[r].winner = "primary"
        /\ (k.st = "rejected" \/ (klineFailed /\ joined)) => req[r].emError # ""
        /\ (req[r].winner = "primary" /\ call[S(r)].st = "rejected") =>
             SnapFields \cap DOMAIN req[r].financials = {}
        /\ (req[r].winner = "primary" /\ call[F(r)].st = "rejected") =>
             /\ (DeepFields \ {"roe"}) \cap DOMAIN req[r].financials = {}
             /\ "roe" \in DOMAIN req[r].financials =>
                  /\ call[S(r)].st = "resolved"
                  /\ req[r].financials.roe = call[S(r)].val.data.f173
C9_Witness ==
  \E r \in Reqs :
    /\ req[r].winner = "primary"
    /\ call[S(r)].st = "rejected" /\ call[F(r)].st = "rejected"

\* C5: on every exit path of a call (callback, script load error, timeout)
\* its callback registration and its script element are released, exactly
\* once; nothing is released while the call is in flight.
C5_ReleasedExactlyOnce ==
  \A c \in Calls :
    /\ Settled(c) =>
         /\ ~Registered(c) /\ ~ScriptInDom(c)
         /\ rel[c] = [cb |-> 1, scr |-> 1]
    /\ InFlight(c) => rel[c] = [cb |-> 0, scr |-> 0]

\* C6: any two calls in flight at the same time have different callback
\* names (also two concurrent fetchStockData requests for the same code), so
\* a call in flight keeps its own registration and its own script element.
C6_UniqueCallbackNames ==
  /\ \A c, d \in Calls : (c # d /\ InFlight(c) /\ InFlight(d)) => cbName(c) # cbName(d)
  /\ \A c \in Calls : InFlight(c) => Registered(c) /\ ScriptInDom(c)

\* C7: the response of a call that arrives after the call timed out is
\* inert: no callback is registered under its name any more, and the step
\* changes the outcome of no call and of no request.
C7_LateResponseInert ==
  [][\A c \in Calls :
       (call[c].how = "timeout" /\ call[c].net = "loading" /\ call'[c].net = "loaded") =>
         /\ cbName(c) \notin DOMAIN win
         /\ \A d \in Calls : call'[d].st = call[d].st /\ call'[d].val = call[d].val
         /\ req' = req]_vars

\* C8: every call has its own timeout, armed while the call is in flight;
\* when it fires, the callback registration and the script element of the
\* call are gone in the very step that delivers the failure.
C8_TimeoutReleasesBeforeFailure ==
  [][/\ \A c \in Calls : call'[c].st = "pending" => \E i \in 1..Len(timers') : timers'[i] = c
     /\ \A c \in Calls :
          (call[c].how # "timeout" /\ call'[c].how = "timeout") =>
            /\ call[c].st = "pending" /\ call'[c].st = "rejected"
            /\ now' >= call[c].at + REQUEST_TIMEOUT
            /\ cbName(c) \notin DOMAIN win'
            /\ \A i \in 1..Len(dom') : dom'[i] # c]_vars
C8_Witness ==
  \E c, d \in Calls :
    /\ c # d /\ cbName(c) = cbName(d)
    /\ call[c].how = "timeout" /\ call[d].st # "none"

\* C11: a synthetic record is returned by fetchStockData only if, during
\* that same request, the Primary and the Secondary adapter were both
\* attempted and both failed.
C11_SyntheticOnlyAfterBothFailed ==
  \A r \in Reqs :
    (req[r].outcome = "returned" /\ req[r].out.kind = "mock") =>
      /\ call[K(r)].st # "none" /\ req[r].emError # ""
      /\ call[Q(r)].st # "none" /\ ~req[r].success

\* C12: a db.get on an entry whose expiry is set and earlier than the
\* current time resolves to "no value", never to the stored payload, and
\* creates the transaction of a best-effort delete of that entry; when the
\* delete cannot be started the get resolves to "no value" all the same.
C12_ExpiredGetIsAbsent ==
  [][\A r \in Reqs :
       LET key == <<MARKET, cacheKey(req[r].code)>>
           del == Tx("db", 0, "del", MARKET, cacheKey(req[r].code))
       IN  ( /\ req[r].pc = "getReq" /\ req'[r].pc # "getReq"
             /\ req'[r].dbres = "resolved"
             /\ key \in DOMAIN store
             /\ store[key].expiry # 0 /\ store[key].expiry < now )
           => /\ req'[r].winner # "cache"
              /\ req'[r].out # store[key].data
              /\ req'[r].pc = "primary"
              /\ txq' \in {Tail(txq), Append(Tail(txq), del)}]_vars
C12_Witness ==
  \E r \in Reqs :
    /\ req[r].pc = "primary" /\ req[r].dbres = "resolved"
    /\ <<MARKET, cacheKey(req[r].code)>> \in DOMAIN store
    /\ txq # <<>> /\ Head(txq).op = "del" /\ Head(txq).key = cacheKey(req[r].code)

\* C13: after a set(k, v, ttl) with ttl > 0 that a caller saw complete, and
\* with no other set or clear on k since: a get called afterwards returns v
\* when it completes before the expiry time, "no value" when it completes
\* after the expiry time, and "no value" once an earlier get has returned
\* "no value" for the expired entry.
C13_TtlRoundTrip ==
  [][\A c \in Clients :
       LET d == dbc[c]
           w == d.ref.set
       IN  ( /\ d.op = "get" /\ d.pc = "req" /\ dbc'[c].pc = "idle"
             /\ w # Null /\ obs[<<d.sn, d.key>>].set = w
             /\ w.expiry # 0 )
           => /\ now < w.expiry => dbc'[c].res = w.data
              /\ now > w.expiry => dbc'[c].res = Null
              /\ d.ref.gone => dbc'[c].res = Null]_vars

\* C14: the two object stores are isolated: running a put or a clear on one
\* of them never changes what a get returns for any key of the other, the
\* same key string included.
C14_NamespacesIsolated ==
  [][\A sn \in STORES, k \in DbKeys :
       ( /\ txq # <<>> /\ txq' = Tail(txq)
         /\ Head(txq).op \in {"put", "clear"} /\ Head(txq).sn # sn )
       => getValue([store |-> store', now |-> now'], cell(sn, k))
            = getValue([store |-> store, now |-> now], cell(sn, k))]_vars
C14_Witness ==
  /\ cell(MARKET, "k") \in DOMAIN store /\ cell(ANALYSIS, "k") \in DOMAIN store
  /\ store[cell(MARKET, "k")].data # store[cell(ANALYSIS, "k")].data
  /\ obs[<<MARKET, "k">>].set # Null /\ obs[<<ANALYSIS, "k">>].set # Null

\* C15: on a cache hit fetchStockData returns the cached record as it is
\* stored and issues no adapter call; on a miss the record it returns is
\* the record it has written to the cache; and the record returned and the
\* record cached stay what they were from then on.
C15_ReturnedIsCached ==
  \A r \in Solo :
    LET key == <<MARKET, cacheKey(req[r].code)>>
    IN  /\ (req[r].outcome = "returned" /\ req[r].winner = "cache") =>
             /\ \A c \in Calls : Owner(c) = r => call[c].st = "none"
             /\ key \in DOMAIN store /\ req[r].out = store[key].data
        /\ (req[r].outcome = "returned" /\ req[r].winner # "cache" /\ req[r].wt # 0) =>
             /\ key \in DOMAIN store /\ req[r].out = store[key].data
             /\ store[key].timestamp = req[r].wt
C15_Witness ==
  \E r \in Solo :
    /\ req[r].outcome = "returned" /\ req[r].winner = "primary" /\ req[r].wt # 0
    /\ req[r].out = store[<<MARKET, cacheKey(req[r].code)>>].data
    /\ txq = <<>>

\* The numeric fields of a FinancialSnapshot the adapters fill.
C16_NumFields == {"peTTM", "pb", "roe", "debtRatio", "netMargin"}

\* C16: reconciliation never overwrites or drops a present value: every
\* field of the adapter's partial snapshot that holds a number (0 and
\* negative numbers included) is in the returned snapshot unchanged.
C16_PresentValuesKept ==
  (io # <<>> /\ io.fn = "reconcile" /\ io.phase = "out") =>
    \A k \in C16_NumFields : io.arg[k] # Null => io.res[k] = io.arg[k]

\* C17: apart from the derived ROE and the default debt ratio, every field
\* that is absent in the adapter's snapshot is null in the returned
\* snapshot.
C17_AbsentStaysNull ==
  (io # <<>> /\ io.fn = "reconcile" /\ io.phase = "out") =>
    \A k \in DOMAIN io.res \ {"roe", "debtRatio"} : Get(io.arg, k) = Null => io.res[k] = Null

\* C18: ROE is derived as (P/B / P/E) * 100 exactly when ROE is absent, P/B
\* and P/E are both present and P/E > 0; otherwise the returned ROE is the
\* adapter's (a number, or null when absent).
C18_RoeDerivedExactlyWhen ==
  (io # <<>> /\ io.fn = "reconcile" /\ io.phase = "out") =>
    LET f == io.arg
        derive == /\ f.roe = Null /\ f.pb # Null /\ f.peTTM # Null
                  /\ FLess(FInt(0), f.peTTM)
    IN  IF derive THEN io.res.roe = FMul(FDiv(f.pb, f.peTTM), FInt(100))
        ELSE io.res.roe = f.roe

\* C19: the synthetic record has the same number of bars whatever the day
\* it is generated on, and every one of its financial fields is non-null.
C19_MockFixedBarCount ==
  (io # <<>> /\ io.fn = "mock" /\ io.phase = "out") =>
    /\ Len(io.res.dates) = Len(mockDates(Today))
    /\ \A k \in DOMAIN io.res.financials : io.res.financials[k] # Null

\* C20: calculateMA(data, p) gives, at every index i (from 0), null when
\* i < p - 1 and otherwise the arithmetic mean of the closes at indices
\* i - p + 1 .. i, and leaves the other fields of each bar as they were.
C20_MovingAverage ==
  (io # <<>> /\ io.fn = "ma" /\ io.phase = "out") =>
    LET data == io.arg.data
        p == io.arg.period
    IN  /\ Len(io.res) = Len(data)
        /\ \A j \in 1..Len(data) :
             LET v == io.res[j][maKey(p)]
             IN  /\ [k \in DOMAIN data[j] |-> io.res[j][k]] = data[j]
                 /\ j - 1 < p - 1 => v = Null
                 /\ j - 1 >= p - 1 =>
                      /\ v # Null
                      /\ FMul(v, FInt(p)) = SumClose(data, j - p + 1, j)
C20_Witness ==
  /\ io # <<>> /\ io.fn = "ma" /\ io.phase = "out"
  /\ io.arg.period = 3 /\ Len(io.res) = MaxLen
  /\ io.res[2].ma3 = Null
  /\ io.res[3].ma3 # Null /\ io.res[MaxLen].ma3 # Null
  /\ io.res[3].ma3 # io.res[MaxLen].ma3
  /\ io.res[3].ma3.d = 3

\* C21: at every index of every series the RSI calculateRSI emits lies in
\* [0, 100]; at the warm-up indices it is 50.
C21_RsiInRange ==
  (io # <<>> /\ io.fn = "rsi" /\ io.phase = "out") =>
    /\ Len(io.res) = Len(io.arg.data)
    /\ \A j \in 1..Len(io.res) :
         /\ FLeq(FInt(0), io.res[j].rsi) /\ FLeq(io.res[j].rsi, FInt(100))
         /\ j - 1 < io.arg.period => io.res[j].rsi = FInt(50)
C21_Witness ==
  /\ io # <<>> /\ io.fn = "rsi" /\ io.phase = "out"
  /\ io.arg.period = 2 /\ Len(io.res) = MaxLen
  /\ io.res[MaxLen].rsi \notin {FInt(0), FInt(50), FInt(100)}
  /\ io.res[MaxLen].rsi # io.res[MaxLen - 1].rsi
  /\ io.arg.data[MaxLen].close < io.arg.data[MaxLen - 1].close

C23_KDInRange ==
  \A j \in 1..Len(io.res) :
    /\ FLeq(FInt(0), io.res[j].k) /\ FLeq(io.res[j].k, FInt(100))
    /\ FLeq(FInt(0), io.res[j].d) /\ FLeq(io.res[j].d, FInt(100))

\* C23: at every index of every series the K and D calculateKDJ emits lie
\* in [0, 100].
C23_KDAlwaysInRange ==
  (io # <<>> /\ io.fn = "kdj" /\ io.phase = "out") => C23_KDInRange

\* C24: at every index the mid calculateBollinger(period) emits equals what
\* calculateMA(period) emits there (both null before the window is full),
\* the three bands are null together, and lower <= mid <= upper otherwise.
C24_BollingerMidIsMA ==
  (io # <<>> /\ io.fn = "boll" /\ io.phase = "out") =>
    LET ma == calculateMA(io.arg.data, io.arg.period)
    IN  \A j \in 1..Len(io.arg.data) :
          LET b == io.res[j]
          IN  /\ b.mid = ma[j][maKey(io.arg.period)]
              /\ (j - 1 < io.arg.period - 1) <=> b.mid = Null
              /\ b.mid = Null <=> b.upper = Null
              /\ b.mid = Null <=> b.lower = Null
              /\ b.mid # Null => FLeq(b.lower, b.mid) /\ FLeq(b.mid, b.upper)
C24_Witness ==
  /\ io # <<>> /\ io.fn = "boll" /\ io.phase = "out"
  /\ io.arg.period = 3 /\ Len(io.res) = MaxLen
  /\ io.res[2].mid = Null /\ io.res[MaxLen].mid # Null
  /\ io.res[MaxLen].mid.d = 3
  /\ FLess(io.res[MaxLen].lower, io.res[MaxLen].mid)
  /\ FLess(io.res[MaxLen].mid, io.res[MaxLen].upper)

\* The fields each pass is to write.
C25_OwnFields(p) ==
  CASE p = "macd" -> {"dif", "dea", "macd"}
    [] p = "rsi" -> {"rsi"}
    [] p = "kdj" -> {"k", "d", "j"}
    [] p = "boll" -> {"upper", "mid", "lower"}
    [] OTHER -> {p}

C29_LazyDeleteSparesFreshEntry ==
  [][\A sn \in STORES, k \in DbKeys :
       ( /\ txq # <<>> /\ txq' = Tail(txq)
         /\ Head(txq).op = "del" /\ Head(txq).sn = sn /\ Head(txq).key = k
         /\ cell(sn, k) \in DOMAIN store
         /\ ~expired(store[cell(sn, k)], now) )
       => /\ cell(sn, k) \in DOMAIN store'
          /\ getValue([store |-> store', now |-> now'], cell(sn, k))
               = store[cell(sn, k)].data]_vars

\* C30: what the Mirror-2 attempt of fetchKLinesEastMoney resolves with is
\* the body of Mirror 2's own response: a response to the Mirror-1 request
\* that arrives after Mirror 1 has timed out never resolves the Mirror-2
\* request, and the candles taken from Mirror 2 are never Mirror 1's.
C30_MirrorTwoOwnResponse ==
  (bao # <<>> /\ bao.js["em2"].st = "resolved" /\ bao.js["em2"].val # Null) =>
    /\ bao.js["em2"].val.from = "em2"
    /\ bao.js["em2"].val.kind = "bars" => bao.candles.from = "em2"

\* The request of JSONP call c has failed: it timed out, its script failed
\* to load, or its server sent a body without the series.
C26_Failed(c) == bao.js[c].own \in {"timeout", "error", "other"}

C27_ReportMatchesStock ==
  (hook # <<>> /\ hook.rendered.analysis # Null) =>
    /\ hook.rendered.data # Null
    /\ hook.rendered.analysis.stockCode = hook.rendered.data.code

\* C28: useStockData is latest-request-wins: once no fetch is pending and
\* the fetch for the current code has resolved, the data of the hook is the
\* record of the current code; and loading is not false while the fetch
\* for the current code is pending.
C28_LatestRequestWins ==
  (hook # <<>> /\ ~hook.dirty /\ hook.eff = {} /\ hook.sdDeps = C(hook.cur)) =>
    /\ (hook.fetches = {} /\ hook.lastOk) => hook.rendered.data = C(hook.cur)
    /\ (\E f \in hook.fetches : f.n = hook.nf) => hook.rendered.loading

====
